---- MODULE Spec2Model ----
(***************************************************************************)
(* Model of the incremental ingestion pipeline of dwd-cdc (hr-temp.py):    *)
(* remote listing, per-file expectation check against the persisted        *)
(* watermark, download, extraction, watermark-filtered parsing and the     *)
(* transactional write-back, driven by the retry loops of process_dataset. *)
(*                                                                         *)
(* Python strings are sequences of one-character strings, so that split,   *)
(* strip, int(), strftime and the lexicographic comparison of timestamps   *)
(* are computed and not assumed.                                           *)
(***************************************************************************)
EXTENDS Integers, Sequences, FiniteSets, TLC

\* ------------------------------------------------------------------------
\* Python str helpers
\* ------------------------------------------------------------------------

DigitChars == <<"0", "1", "2", "3", "4", "5", "6", "7", "8", "9">>

IsDigit(c) == \E k \in 1..10 : DigitChars[k] = c

DigitVal(c) == (CHOOSE k \in 1..10 : DigitChars[k] = c) - 1

\* code point order of the characters that occur in the model (ASCII)
CharTable == <<" ", "-", ".", "0", "1", "2", "3", "4", "5", "6", "7", "8", "9",
               "T", "U", "_", "a", "b", "d", "e", "h", "i", "k", "n", "o", "p",
               "r", "s", "t", "u", "w", "x", "z">>

Ord(c) == CHOOSE k \in 1..Len(CharTable) : CharTable[k] = c

\* str < str of Python: lexicographic, a proper prefix is smaller
RECURSIVE StrLess(_, _)
StrLess(a, b) ==
    IF b = <<>> THEN FALSE
    ELSE IF a = <<>> THEN TRUE
    ELSE IF a[1] # b[1] THEN Ord(a[1]) < Ord(b[1])
    ELSE StrLess(Tail(a), Tail(b))

StrLE(a, b) == a = b \/ StrLess(a, b)

StrGreater(a, b) == StrLess(b, a)

StartsWith(s, p) == Len(s) >= Len(p) /\ SubSeq(s, 1, Len(p)) = p

EndsWith(s, p) == Len(s) >= Len(p) /\ SubSeq(s, Len(s) - Len(p) + 1, Len(s)) = p

\* str.split(sep) for a one-character separator
RECURSIVE SplitAcc(_, _, _, _)
SplitAcc(s, sep, cur, acc) ==
    IF s = <<>> THEN Append(acc, cur)
    ELSE IF s[1] = sep THEN SplitAcc(Tail(s), sep, <<>>, Append(acc, cur))
    ELSE SplitAcc(Tail(s), sep, Append(cur, s[1]), acc)

Split(s, sep) == SplitAcc(s, sep, <<>>, <<>>)

\* str.strip() for blanks
RECURSIVE LStrip(_)
LStrip(s) == IF s # <<>> /\ s[1] = " " THEN LStrip(Tail(s)) ELSE s

RECURSIVE RStrip(_)
RStrip(s) == IF s # <<>> /\ s[Len(s)] = " " THEN RStrip(SubSeq(s, 1, Len(s) - 1)) ELSE s

Strip(s) == RStrip(LStrip(s))

AllDigits(s) == s # <<>> /\ \A k \in 1..Len(s) : IsDigit(s[k])

RECURSIVE DigitsValue(_, _)
DigitsValue(s, acc) ==
    IF s = <<>> THEN acc ELSE DigitsValue(Tail(s), acc * 10 + DigitVal(s[1]))

\* int(str): surrounding blanks and one sign are accepted, anything else is a
\* ValueError
IntBody(s) == IF s # <<>> /\ s[1] = "-" THEN Tail(s) ELSE s

IntOk(s) == AllDigits(IntBody(Strip(s)))

IntOf(s) ==
    LET t == Strip(s)
    IN  IF t[1] = "-" THEN 0 - DigitsValue(Tail(t), 0) ELSE DigitsValue(t, 0)

\* float(str) for the decimal notation of the payload; the value is kept in
\* tenths (the payload carries one decimal)
FloatParts(s) == Split(IntBody(Strip(s)), ".")

FloatOk(s) ==
    LET p == FloatParts(s)
    IN  \/ Len(p) = 1 /\ AllDigits(p[1])
        \/ Len(p) = 2 /\ AllDigits(p[1]) /\ Len(p[2]) = 1 /\ IsDigit(p[2][1])

FloatOf(s) ==
    LET p == FloatParts(s)
        mag == DigitsValue(p[1], 0) * 10 + (IF Len(p) = 2 THEN DigitVal(p[2][1]) ELSE 0)
    IN  IF Strip(s)[1] = "-" THEN 0 - mag ELSE mag

\* "%0<width>d" of a natural number
RECURSIVE ZeroPad(_, _)
ZeroPad(n, width) ==
    IF width = 0 THEN <<>>
    ELSE Append(ZeroPad(n \div 10, width - 1), DigitChars[(n % 10) + 1])

\* ------------------------------------------------------------------------
\* datetime.date
\* ------------------------------------------------------------------------

IsLeap(y) == y % 4 = 0 /\ (y % 100 # 0 \/ y % 400 = 0)

DaysInMonth(y, m) ==
    IF m = 2 THEN (IF IsLeap(y) THEN 29 ELSE 28)
    ELSE IF m \in {4, 6, 9, 11} THEN 30 ELSE 31

RECURSIVE DaysBeforeMonth(_, _)
DaysBeforeMonth(y, m) ==
    IF m = 1 THEN 0 ELSE DaysBeforeMonth(y, m - 1) + DaysInMonth(y, m - 1)

DaysBeforeYear(y) ==
    (y - 1) * 365 + ((y - 1) \div 4) - ((y - 1) \div 100) + ((y - 1) \div 400)

\* date.toordinal()
ToOrdinal(dt) == DaysBeforeYear(dt.y) + DaysBeforeMonth(dt.y, dt.m) + dt.d

\* date.fromordinal(n)
FromOrdinal(n) ==
    LET y  == CHOOSE yy \in (n \div 366)..((n \div 365) + 1) :
                 DaysBeforeYear(yy) < n /\ n <= DaysBeforeYear(yy + 1)
        r  == n - DaysBeforeYear(y)
        m  == CHOOSE mm \in 1..12 :
                 DaysBeforeMonth(y, mm) < r /\ r <= DaysBeforeMonth(y, mm) + DaysInMonth(y, mm)
    IN  [y |-> y, m |-> m, d |-> r - DaysBeforeMonth(y, m)]

\* date + timedelta(days=n)
AddDays(dt, n) == FromOrdinal(ToOrdinal(dt) + n)

\* date.strftime("%Y%m%d")
StrfYmd(dt) == ZeroPad(dt.y, 4) \o ZeroPad(dt.m, 2) \o ZeroPad(dt.d, 2)

\* ------------------------------------------------------------------------
\* The remote server: file names and archives
\* ------------------------------------------------------------------------

\* a Python string literal of digits, blanks and signs, written by its characters
S_stundenwerte == <<"s", "t", "u", "n", "d", "e", "n", "w", "e", "r", "t", "e">>
S_TU           == <<"T", "U">>
S_hist_zip     == <<"h", "i", "s", "t", ".", "z", "i", "p">>
S_akt_zip      == <<"a", "k", "t", ".", "z", "i", "p">>
S_produkt      == <<"p", "r", "o", "d", "u", "k", "t", "_">>
S_Metadaten    == <<"M", "e", "t", "a", "d", "a", "t", "e", "n", "_">>
S_23           == <<"2", "3">>
S_1701         == <<"1", "7", "0", "1">>
S_2018         == <<"2", "0", "1", "8">>
S_999          == <<"-", "9", "9", "9">>

U == <<"_">>

\* stundenwerte_TU_<station>_<von>_<bis>_hist.zip
HistName(st, von, bis) ==
    S_stundenwerte \o U \o S_TU \o U \o st \o U \o von \o U \o bis \o U \o S_hist_zip

\* stundenwerte_TU_<station>_akt.zip
AktName(st) == S_stundenwerte \o U \o S_TU \o U \o st \o U \o S_akt_zip

\* the station number as the file names carry it
StName(n) == ZeroPad(n, 5)

\* yyyymmdd and yyyymmddhh as the server writes them
Ymd(y, m, d) == ZeroPad(y, 4) \o ZeroPad(m, 2) \o ZeroPad(d, 2)

Ts(y, m, d, h) == Ymd(y, m, d) \o ZeroPad(h, 2)

\* the file names of the two remote directories
Hist1  == HistName(StName(1), Ymd(1990, 1, 1), Ymd(2020, 1, 1))
Hist2  == HistName(StName(2), Ymd(1990, 1, 1), Ymd(2017, 12, 31))
Hist3  == HistName(StName(3), Ymd(2018, 1, 1), Ymd(2019, 12, 31))
Hist4  == HistName(StName(4), Ymd(2018, 1, 1), Ymd(2018, 12, 31))
Hist4b == HistName(StName(4), Ymd(2019, 1, 1), Ymd(2019, 12, 31))
Akt1   == AktName(StName(1))
Akt2   == AktName(StName(2))
Akt3   == AktName(StName(3))
Akt4   == AktName(StName(4))
Akt9   == AktName(StName(9))

\* the answer of NLST *.zip in the directory of each kind
Listing(k) ==
    IF k = "historical" THEN <<Hist1, Hist2, Hist3, Hist4, Hist4b>>
    ELSE <<Akt1, Akt2, Akt3, Akt4, Akt9>>

\* what NLST *.zip may deliver for the directory: all its files, or the first
\* two only (the directory before the other stations were added), or, for the
\* current files, the file of the unknown station before a file of station 1
\* (the server chooses the order)
Listings(k) ==
    { Listing(k), SubSeq(Listing(k), 1, 2) }
        \cup (IF k = "recent" THEN { <<Akt9, Akt1>> } ELSE {})

Kinds == {"historical", "recent"}

\* one line of a produkt_ file after csv.reader split it on ";":
\* STATIONS_ID;MESS_DATUM;QN_9;TT_TU;RF_TU;eor
HeaderRow ==
    << <<"S">>, <<"M">>, <<"Q">>, <<"T">>, <<"R">>, <<"e">> >>

Row(st, ts, tt, rf) == << st, ts, <<" ", " ", " ", " ", "3">>, tt, rf, <<"e">> >>

F_12_5   == <<" ", " ", "1", "2", ".", "5">>
F_m3_0   == <<" ", " ", "-", "3", ".", "0">>
F_80_0   == <<" ", " ", "8", "0", ".", "0">>
F_999    == <<"-", "9", "9", "9">>
F_999pad == <<" ", "-", "9", "9", "9", " ">>
F_bad    == <<"x">>
F_999_0  == <<"-", "9", "9", "9", ".", "0">>

\* the station column of a payload line, right-aligned
RowSt(n) == <<" ", " ", " ", " ", " ", " ", " ", " ", " ", " ">> \o ZeroPad(n, 1)

Entry(name, lines) == [name |-> name, lines |-> lines]

MetaEntry == Entry(S_Metadaten, <<>>)

\* the content of the zip archive the server delivers for a file name: its
\* entries in the order of zipfile.infolist()
Archive(f) ==
    IF f = Hist1 THEN
        << MetaEntry,
           Entry(S_produkt, << HeaderRow,
                               Row(RowSt(1), Ts(2020, 1, 1, 0), F_12_5, F_80_0),
                               Row(RowSt(1), Ts(2020, 1, 1, 1), F_999, F_80_0) >>) >>
    ELSE IF f = Akt1 THEN
        << MetaEntry,
           Entry(S_produkt, << HeaderRow,
                               Row(RowSt(1), Ts(2020, 1, 1, 0), F_12_5, F_80_0),
                               Row(RowSt(1), Ts(2020, 1, 1, 1), F_999, F_80_0),
                               Row(RowSt(1), Ts(2020, 1, 1, 2), F_m3_0, F_999pad) >>) >>
    ELSE IF f = Hist2 THEN
        << Entry(S_produkt, << HeaderRow,
                               Row(RowSt(2), Ts(2017, 6, 1, 0), F_12_5, F_80_0),
                               Row(RowSt(2), Ts(2017, 12, 31, 23), F_12_5, F_999) >>),
           MetaEntry >>
    ELSE IF f = Akt2 THEN
        << MetaEntry,
           Entry(S_produkt, << HeaderRow,
                               Row(RowSt(2), Ts(2017, 6, 1, 0), F_12_5, F_80_0) >>) >>
    ELSE IF f = Hist3 THEN
        << MetaEntry,
           Entry(S_produkt, << HeaderRow,
                               Row(RowSt(3), Ts(2019, 12, 31, 22), F_12_5, F_999_0),
                               Row(RowSt(3), Ts(2019, 12, 31, 23), F_12_5, F_80_0) >>) >>
    ELSE IF f = Akt3 THEN
        \* rows out of timestamp order
        << MetaEntry,
           Entry(S_produkt, << HeaderRow,
                               Row(RowSt(3), Ts(2019, 12, 31, 23), F_12_5, F_80_0),
                               Row(RowSt(3), Ts(2020, 1, 1, 1), F_12_5, F_80_0),
                               Row(RowSt(3), Ts(2020, 1, 1, 0), F_12_5, F_80_0) >>) >>
    ELSE IF f = Hist4 THEN
        \* a row whose temperature is no number
        << MetaEntry,
           Entry(S_produkt, << HeaderRow,
                               Row(RowSt(4), Ts(2018, 12, 31, 23), F_bad, F_80_0) >>) >>
    ELSE IF f = Hist4b THEN
        \* no produkt_ entry
        << MetaEntry >>
    ELSE IF f = Akt4 THEN
        \* rows of another station than the one of the file name, with other
        \* values than Akt1 has for the hour
        << MetaEntry,
           Entry(S_produkt, << HeaderRow,
                               Row(RowSt(1), Ts(2020, 1, 1, 0), F_m3_0, F_999) >>) >>
    ELSE
        << MetaEntry, Entry(S_produkt, << HeaderRow >>) >>

\* the rows of table stationen (ProcessStationen, run with --stations before)
Stationen == {1, 2, 3, 4}

\* every station number a file name or a payload row can carry
StationIds == {1, 2, 3, 4, 9}

\* ------------------------------------------------------------------------
\* Program constants
\* ------------------------------------------------------------------------

NULLDATUM == <<"1", "7", "0", "0", "0", "1", "0", "1", "0", "0">>

\* range(3) of both retry loops of process_dataset
MaxAttempts == 3

\* SQL NULL, Python None
NULL == <<>>

IfNull(v, dflt) == IF v = NULL THEN dflt ELSE v

\* how many runs of the program the model follows
MaxRuns == 2

\* how often a run finds the database locked at commit
MaxCommitLocks == 1

\* runs of hr-temp.py in the specification with fairness
MaxLiveRuns == 1

\* the greatest do_times repeat is called with (line 47 allows 1..10)
MaxDoTimes == 4

\* the values of do_times
DoTimes == 1..MaxDoTimes

\* the days the program is run on (date.today())
Todays == { [y |-> 2020, m |-> 1, d |-> 1], [y |-> 2020, m |-> 3, d |-> 1] }

\* ------------------------------------------------------------------------
\* State
\* ------------------------------------------------------------------------

VARIABLES
    readings,       \* table readings, committed rows
    recent,         \* table recent, committed: station -> yyyymmddhh or NULL
    runs,           \* number of runs started
    today,          \* date.today() of the run
    kind,           \* argument of process_dataset
    pc,             \* position of the run
    ERROR,          \* applog.ERROR
    file_list,      \* process_dataset: file_list
    i,              \* process_dataset: index of fnam in file_list (1-based)
    attempt,        \* process_dataset: attempt of the loop being executed
    station,        \* ProcessDataFile: self.station
    expected,       \* result of is_data_expected in this attempt: "None" before,
                    \* then "True" or "False"
    did_download,   \* ProcessDataFile: self.did_download
    temp_dir,       \* whether the TemporaryDirectory of this attempt exists (with
                    \* the archive and the extracted file in it)
    produkt,        \* lines of the extracted produkt_ file
    parsed,         \* ProcessDataFile.__init__: readings (the list from _parse)
    tx,             \* uncommitted writes of the open Connection
    retr,           \* RETR commands sent in this attempt
    throttled,      \* whether sleep(3) of line 515 ran in this attempt
    backoffs,       \* sleep(3) of the except clauses for the current loop
    mails,          \* subjects handed to mailgun.shoot_mail in this run
    ingested,       \* history: the files whose archive was committed with the
                    \* watermark of their station advanced
    calls,          \* ProcessDataFile(ftp, fnam) calls of line 512 for the current fnam
    tried,          \* history: the files of this run ProcessDataFile was called for
    downloads,      \* RETR commands completed for the current fnam
    interrupted,    \* whether KeyboardInterrupt ended the try of __main__
    rp_pc,          \* ftplight.repeat: position of a call of repeat
    do_times,       \* ftplight.repeat: parameter do_times
    rp_attempt,     \* ftplight.repeat: attempt (line 52)
    callbacks,      \* history: calls of callback() in this call of repeat
    sleeps,         \* history: sleep(throttle_sec) in this call of repeat
    outcomes,       \* history: how each callback() ended
    flagged,        \* whether johanna.flag_as_error() was called
    ret,            \* the value repeat returned
    readings_inserted,  \* GLOBAL_STAT["readings_inserted"]
    added,          \* history: rows this run added to table readings
    gaveup,         \* history: whether a file of this run was given up after its
                    \* last attempt
    commit_locks,   \* history: commits of this run that found the database locked
    connected,      \* whether the FTP connection of process_dataset is open
    emitted,        \* the readings_inserted of the statistics logged in line 535,
                    \* NULL before
    test_pc,        \* test_ftplight.main_repeat: "idle", or the call of repeat it is in
    call_cnt,       \* test_ftplight.cb: cb.call_cnt
    first           \* main_repeat: what its first call of repeat returned and the
                    \* callbacks it made

vars == <<readings, recent, runs, today, kind, pc, ERROR, file_list, i, attempt,
          station, expected, did_download, temp_dir, produkt, parsed, tx, retr,
          throttled, backoffs, mails, ingested, calls, tried, downloads, interrupted,
          rp_pc, do_times, rp_attempt, callbacks, sleeps, outcomes, flagged, ret,
          readings_inserted, added, gaveup, commit_locks, connected, emitted,
          test_pc, call_cnt, first>>

storeVars == <<readings, recent>>

runVars == <<runs, today, kind>>

attemptVars == <<station, expected, did_download, temp_dir, produkt, parsed, tx>>

repeatVars == <<rp_pc, do_times, rp_attempt, callbacks, sleeps, outcomes, flagged, ret,
                test_pc, call_cnt, first>>

\* repeat has not returned
NoRet == [success |-> FALSE, result |-> NULL, returned |-> FALSE]

\* main_repeat has not got the result of its first call of repeat
NoFirst == [ret |-> NoRet, callbacks |-> 0]

\* no call of repeat going on
RepeatIdle ==
    /\ rp_pc = "idle"
    /\ do_times = 0
    /\ rp_attempt = 0
    /\ callbacks = 0
    /\ sleeps = 0
    /\ outcomes = <<>>
    /\ flagged = FALSE
    /\ ret = NoRet
    /\ test_pc = "idle"
    /\ call_cnt = 0
    /\ first = NoFirst

NoStation == [station |-> 0, dwdts_recent |-> NULL, dwdts_readings |-> NULL,
              populated |-> FALSE]

NoTx == [open |-> FALSE, readings |-> {}, station |-> 0, yyyymmddhh |-> NULL]

Init ==
    /\ readings = {}
    /\ recent = [s \in StationIds |-> NULL]
    /\ runs = 0
    /\ today = [y |-> 2020, m |-> 1, d |-> 1]
    /\ kind = "recent"
    /\ pc = "idle"
    /\ ERROR = FALSE
    /\ file_list = <<>>
    /\ i = 0
    /\ attempt = 0
    /\ station = NoStation
    /\ expected = "None"
    /\ did_download = FALSE
    /\ temp_dir = FALSE
    /\ produkt = <<>>
    /\ parsed = <<>>
    /\ tx = NoTx
    /\ retr = 0
    /\ throttled = FALSE
    /\ backoffs = 0
    /\ mails = <<>>
    /\ ingested = {}
    /\ calls = 0
    /\ tried = {}
    /\ downloads = 0
    /\ interrupted = FALSE
    /\ RepeatIdle
    /\ readings_inserted = 0
    /\ added = 0
    /\ gaveup = FALSE
    /\ commit_locks = 0
    /\ connected = FALSE
    /\ emitted = NULL

\* the file the loop of process_dataset is at
fnam == file_list[i]

\* ------------------------------------------------------------------------
\* Station.__init__ and is_data_expected
\* ------------------------------------------------------------------------

\* max() of SQLite over text values (binary collation), NULL over no rows
MaxStr(S) == IF S = {} THEN NULL ELSE CHOOSE m \in S : \A x \in S : StrLE(x, m)

\* int(fnam.split(".")[0].split("_")[2])
StationOfName(f) == IntOf(Split(Split(f, ".")[1], "_")[3])

\* the row of the select of Station.__init__
StationRow(st) ==
    [station        |-> st,
     dwdts_recent   |-> IfNull(recent[st], NULLDATUM),
     dwdts_readings |-> IfNull(MaxStr({r.dwdts : r \in {x \in readings : x.station = st}}),
                               NULLDATUM),
     populated      |-> TRUE]

\* Station.__init__ with the assertion of line 228 switched off
StationRaisesUnchecked(st) == st \notin Stationen

\* Station.__init__ raises: the assertion of line 228, or LAND_MAP[None] of
\* line 231 when table stationen has no row for the station (the aggregate
\* select still returns one row, of NULLs)
StationRaises(st) ==
    \/ StationRow(st).dwdts_recent # StationRow(st).dwdts_readings
    \/ st \notin Stationen

\* line 259 without the timedelta: today for yesterday
YesterDwdtsToday(day) == StrfYmd(day) \o S_23

\* yester_dwdts of is_data_expected
YesterDwdts(day) == StrfYmd(AddDays(day, -1)) \o S_23

\* fnam.split(".")[0].split("_")[4] + "23"
Bis(f) == Split(Split(f, ".")[1], "_")[5] \o S_23

\* the first condition of line 252 dropped: the cut-off for every station
IsExhaustedAnyStation(f, s) == StrLess(Bis(f), S_2018)

\* lines 252..254 dropped: no cut-off
IsExhaustedNever(f, s) == FALSE

\* the cut-off of lines 252..254
IsExhausted(f, s) == StrGreater(s.dwdts_readings, S_1701) /\ StrLess(Bis(f), S_2018)

\* is_data_expected(fnam, s) on day date.today(), the assertions aside
is_data_expected(f, s, day) ==
    IF EndsWith(f, U \o S_hist_zip)
    THEN IF IsExhausted(f, s) THEN FALSE ELSE StrLess(s.dwdts_readings, Bis(f))
    ELSE StrLess(s.dwdts_readings, YesterDwdts(day))

\* the assertions of is_data_expected
ExpectedRaises(f, s) ==
    \/ s.station # StationOfName(f)
    \/ ~s.populated
    \/ ~EndsWith(f, U \o S_hist_zip) /\ ~EndsWith(f, U \o S_akt_zip)

\* ------------------------------------------------------------------------
\* ProcessDataFile._extract, _parse, _insert_readings, _update_recent
\* ------------------------------------------------------------------------

\* the entries of zipfile.infolist() whose name starts with "produkt_"
ProduktEntries(zip) == {k \in 1..Len(zip) : StartsWith(zip[k].name, S_produkt)}

\* _extract raises ValueError: no produkt_ entry
ExtractRaises(zip) == ProduktEntries(zip) = {}

\* _extract: the first such entry
Extract(zip) == zip[CHOOSE k \in ProduktEntries(zip) : \A j \in ProduktEntries(zip) : k <= j].lines

\* s[a:b] of Python for 0 <= a <= b
Slice(s, a, b) == SubSeq(s, a + 1, IF b < Len(s) THEN b ELSE Len(s))

\* ymdh and the conversions of lines 439..447 raise ValueError (IndexError
\* for a row of fewer columns)
TupRaises(row) ==
    \/ Len(row) < 5
    \/ ~IntOk(Slice(row[2], 0, 4))
    \/ ~IntOk(Slice(row[2], 4, 6))
    \/ ~IntOk(Slice(row[2], 6, 8))
    \/ ~IntOk(Slice(row[2], Len(row[2]) - 2, Len(row[2])))
    \/ ~IntOk(row[1])
    \/ ~IntOk(row[3])
    \/ Strip(row[4]) # S_999 /\ ~FloatOk(row[4])
    \/ Strip(row[5]) # S_999 /\ ~FloatOk(row[5])

\* lines 445..446 without strip(): only a column that is -999 to the letter is
\* taken for missing
TupUnstripped(row) ==
    [station |-> IntOf(row[1]),
     dwdts   |-> row[2],
     y       |-> IntOf(Slice(row[2], 0, 4)),
     m       |-> IntOf(Slice(row[2], 4, 6)),
     d       |-> IntOf(Slice(row[2], 6, 8)),
     h       |-> IntOf(Slice(row[2], Len(row[2]) - 2, Len(row[2]))),
     q       |-> IntOf(row[3]),
     temp    |-> IF row[4] = S_999 THEN NULL ELSE <<FloatOf(row[4])>>,
     humid   |-> IF row[5] = S_999 THEN NULL ELSE <<FloatOf(row[5])>>]

\* tup of lines 440..447
Tup(row) ==
    [station |-> IntOf(row[1]),
     dwdts   |-> row[2],
     y       |-> IntOf(Slice(row[2], 0, 4)),
     m       |-> IntOf(Slice(row[2], 4, 6)),
     d       |-> IntOf(Slice(row[2], 6, 8)),
     h       |-> IntOf(Slice(row[2], Len(row[2]) - 2, Len(row[2]))),
     q       |-> IntOf(row[3]),
     temp    |-> IF Strip(row[4]) = S_999 THEN NULL ELSE <<FloatOf(row[4])>>,
     humid   |-> IF Strip(row[5]) = S_999 THEN NULL ELSE <<FloatOf(row[5])>>]

\* line 431 with < for <=: a row at the watermark is taken again
SuppressedBelowOnly(row, wm) == StrLess(row[2], wm)

\* whether the loop of _parse skips the row (line 431)
Suppressed(row, wm) == StrLE(row[2], wm)

\* the loop of _parse over the lines from line number cnt + 1 on:
\* [raised, readings]
RECURSIVE ParseLoop(_, _, _, _)
ParseLoop(lines, cnt, wm, acc) ==
    IF lines = <<>> THEN [raised |-> FALSE, readings |-> acc]
    ELSE IF cnt + 1 = 1 THEN ParseLoop(Tail(lines), cnt + 1, wm, acc)
    ELSE IF Suppressed(lines[1], wm) THEN ParseLoop(Tail(lines), cnt + 1, wm, acc)
    ELSE IF TupRaises(lines[1]) THEN [raised |-> TRUE, readings |-> <<>>]
    ELSE ParseLoop(Tail(lines), cnt + 1, wm, Append(acc, Tup(lines[1])))

\* _parse(produkt_path) with self.station.dwdts_recent = wm
Parse(lines, wm) == ParseLoop(lines, 0, wm, <<>>)

HasKey(table, r) == \E x \in table : x.station = r.station /\ x.dwdts = r.dwdts

\* INSERT OR REPLACE for INSERT OR IGNORE: the row of the file takes the place
\* of the stored one
RECURSIVE InsertOrReplace(_, _)
InsertOrReplace(table, rows) ==
    IF rows = <<>> THEN table
    ELSE InsertOrReplace({x \in table : ~(x.station = rows[1].station
                                          /\ x.dwdts = rows[1].dwdts)} \cup {rows[1]},
                         Tail(rows))

\* INSERT OR IGNORE INTO readings, row by row (key: station, dwdts)
RECURSIVE InsertOrIgnore(_, _)
InsertOrIgnore(table, rows) ==
    IF rows = <<>> THEN table
    ELSE InsertOrIgnore(IF HasKey(table, rows[1]) THEN table ELSE table \cup {rows[1]},
                        Tail(rows))

\* _update_recent: station of the first tuple
RecentStation(rows) == rows[1].station

\* _update_recent: time of the last tuple
RecentValue(rows) == rows[Len(rows)].dwdts

\* ------------------------------------------------------------------------
\* __main__ and process_dataset: start of a run, the listing
\* ------------------------------------------------------------------------

DayLE(a, b) == ToOrdinal(a) <= ToOrdinal(b)

FreshAttempt ==
    /\ station' = NoStation
    /\ expected' = "None"
    /\ did_download' = FALSE
    /\ temp_dir' = FALSE
    /\ produkt' = <<>>
    /\ parsed' = <<>>
    /\ tx' = NoTx

\* __main__ with --historical or --recent up to the connect of process_dataset
StartRun(k, day) ==
    /\ pc = "idle"
    /\ rp_pc = "idle"
    /\ runs < MaxRuns
    /\ DayLE(today, day)
    /\ runs' = runs + 1
    /\ today' = day
    /\ kind' = k
    /\ ERROR' = FALSE
    /\ mails' = <<>>
    /\ file_list' = <<>>
    /\ i' = 0
    /\ attempt' = 0
    /\ retr' = 0
    /\ throttled' = FALSE
    /\ backoffs' = 0
    /\ FreshAttempt
    /\ pc' = "list"
    /\ calls' = 0
    /\ tried' = {}
    /\ downloads' = 0
    /\ interrupted' = FALSE
    /\ readings_inserted' = 0
    /\ added' = 0
    /\ gaveup' = FALSE
    /\ commit_locks' = 0
    /\ connected' = TRUE
    /\ emitted' = NULL
    /\ UNCHANGED <<storeVars, ingested, repeatVars>>

\* FtpFileList(ftp).get() returns (lines 495, 499..500)
ListFiles ==
    /\ pc = "list"
    /\ \E l \in Listings(kind) :
          /\ file_list' = l
          /\ pc' = IF l = <<>> THEN "close" ELSE "file"
    /\ i' = 1
    /\ attempt' = 0
    /\ backoffs' = 0
    /\ UNCHANGED <<storeVars, runVars, ERROR, attemptVars, retr, throttled, mails, ingested,
                   calls, tried, downloads, interrupted, repeatVars,
                   readings_inserted, added, gaveup, connected, emitted, commit_locks>>

\* range(3) taken for range(4): one attempt more at the listing
ListTimeoutOnceMore ==
    /\ pc = "list"
    /\ backoffs' = backoffs + 1
    /\ attempt' = attempt + 1
    /\ IF attempt + 1 <= MaxAttempts
       THEN /\ pc' = "list"
            /\ UNCHANGED ERROR
       ELSE /\ ERROR' = TRUE
            /\ pc' = "mail"
    /\ UNCHANGED <<storeVars, runVars, file_list, i, attemptVars, retr, throttled, mails, ingested,
                   calls, tried, downloads, interrupted, repeatVars,
                   readings_inserted, added, gaveup, connected, emitted, commit_locks>>

\* FtpFileList raises TimeoutError (lines 496..498), and the else of the loop
\* (lines 501..503) with the handler of __main__ (lines 595..597)
ListTimeout ==
    /\ pc = "list"
    /\ backoffs' = backoffs + 1
    /\ attempt' = attempt + 1
    /\ IF attempt + 1 < MaxAttempts
       THEN /\ pc' = "list"
            /\ UNCHANGED ERROR
       ELSE /\ ERROR' = TRUE
            /\ pc' = "mail"
    /\ UNCHANGED <<storeVars, runVars, file_list, i, attemptVars, retr, throttled, mails, ingested,
                   calls, tried, downloads, interrupted, repeatVars,
                   readings_inserted, added, gaveup, connected, emitted, commit_locks>>

\* FtpFileList raises another exception: no handler in process_dataset, the
\* handler of __main__ (lines 595..597)
ListError ==
    /\ pc = "list"
    /\ ERROR' = TRUE
    /\ pc' = "mail"
    /\ UNCHANGED <<storeVars, runVars, file_list, i, attempt, attemptVars, retr,
                   throttled, backoffs, mails, ingested,
                   calls, tried, downloads, interrupted, repeatVars,
                   readings_inserted, added, gaveup, connected, emitted, commit_locks>>

\* ------------------------------------------------------------------------
\* ProcessDataFile.__init__, step by step
\* ------------------------------------------------------------------------

\* the with of line 325 taken for mkdtemp(): an exception leaves the directory
\* behind
RaiseKeepsDir ==
    /\ temp_dir' = temp_dir
    /\ tx' = NoTx
    /\ pc' = "except"

\* an exception leaves ProcessDataFile.__init__: the with blocks remove the
\* temporary directory and close the connection without commit
Raise ==
    /\ temp_dir' = FALSE
    /\ tx' = NoTx
    /\ pc' = "except"

\* lines 317..322: a new ProcessDataFile, Station(station_nr)
LoadStation ==
    /\ pc = "file"
    /\ expected' = "None"
    /\ did_download' = FALSE
    /\ temp_dir' = FALSE
    /\ produkt' = <<>>
    /\ parsed' = <<>>
    /\ tx' = NoTx
    /\ retr' = 0
    /\ throttled' = FALSE
    /\ IF StationRaises(StationOfName(fnam))
       THEN /\ station' = NoStation
            /\ pc' = "except"
       ELSE /\ station' = StationRow(StationOfName(fnam))
            /\ pc' = "loaded"
    /\ calls' = calls + 1
    /\ tried' = tried \cup {fnam}
    /\ UNCHANGED <<storeVars, runVars, ERROR, file_list, i, attempt, backoffs, mails,
                   ingested,
                   downloads, interrupted, repeatVars,
                   readings_inserted, added, gaveup, connected, emitted, commit_locks>>

\* the select of Station.__init__ raises sqlite3.OperationalError (database is
\* locked)
LoadStationLocked ==
    /\ pc = "file"
    /\ FreshAttempt
    /\ retr' = 0
    /\ throttled' = FALSE
    /\ pc' = "except"
    /\ calls' = calls + 1
    /\ tried' = tried \cup {fnam}
    /\ UNCHANGED <<storeVars, runVars, ERROR, file_list, i, attempt, backoffs, mails,
                   ingested,
                   downloads, interrupted, repeatVars,
                   readings_inserted, added, gaveup, connected, emitted, commit_locks>>

\* line 323: is_data_expected(fnam, self.station), and line 325 or line 344
CheckExpected ==
    /\ pc = "loaded"
    /\ IF ExpectedRaises(fnam, station)
       THEN /\ Raise
            /\ UNCHANGED expected
       ELSE IF is_data_expected(fnam, station, today)
       THEN /\ expected' = "True"
            /\ temp_dir' = TRUE
            /\ pc' = "download"
            /\ UNCHANGED tx
       ELSE /\ expected' = "False"
            /\ pc' = "progress"
            /\ UNCHANGED <<temp_dir, tx>>
    /\ UNCHANGED <<storeVars, runVars, ERROR, file_list, i, attempt, station, did_download,
                   produkt, parsed, retr, throttled, backoffs, mails, ingested,
                   calls, tried, downloads, interrupted, repeatVars,
                   readings_inserted, added, gaveup, connected, emitted, commit_locks>>

\* _download (lines 346..365): RETR completes
Download ==
    /\ pc = "download"
    /\ retr' = retr + 1
    /\ did_download' = TRUE
    /\ pc' = "extract"
    /\ downloads' = downloads + 1
    /\ UNCHANGED <<storeVars, runVars, ERROR, file_list, i, attempt, station, expected,
                   temp_dir, produkt, parsed, tx, throttled, backoffs, mails, ingested,
                   calls, tried, interrupted, repeatVars,
                   readings_inserted, added, gaveup, connected, emitted, commit_locks>>

\* _download: ftp.retrbinary raises (TimeoutError or another exception)
DownloadFails ==
    /\ pc = "download"
    /\ retr' = retr + 1
    /\ Raise
    /\ UNCHANGED <<storeVars, runVars, ERROR, file_list, i, attempt, station, expected,
                   did_download, produkt, parsed, throttled, backoffs, mails, ingested,
                   calls, tried, downloads, interrupted, repeatVars,
                   readings_inserted, added, gaveup, connected, emitted, commit_locks>>

\* _extract (lines 379..397)
ExtractStep ==
    /\ pc = "extract"
    /\ IF ExtractRaises(Archive(fnam))
       THEN /\ Raise
            /\ UNCHANGED produkt
       ELSE /\ produkt' = Extract(Archive(fnam))
            /\ pc' = "parse"
            /\ UNCHANGED <<temp_dir, tx>>
    /\ UNCHANGED <<storeVars, runVars, ERROR, file_list, i, attempt, station, expected,
                   did_download, parsed, retr, throttled, backoffs, mails, ingested,
                   calls, tried, downloads, interrupted, repeatVars,
                   readings_inserted, added, gaveup, connected, emitted, commit_locks>>

\* _parse (lines 400..450) and the branch of line 332 / 338
ParseStep ==
    /\ pc = "parse"
    /\ LET res == Parse(produkt, station.dwdts_recent)
       IN  IF res.raised
           THEN /\ Raise
                /\ UNCHANGED parsed
           ELSE /\ parsed' = res.readings
                /\ pc' = IF res.readings # <<>> THEN "insert" ELSE "cleanup"
                /\ UNCHANGED <<temp_dir, tx>>
    /\ UNCHANGED <<storeVars, runVars, ERROR, file_list, i, attempt, station, expected,
                   did_download, produkt, retr, throttled, backoffs, mails, ingested,
                   calls, tried, downloads, interrupted, repeatVars,
                   readings_inserted, added, gaveup, connected, emitted, commit_locks>>

\* lines 333..334: Connection.__enter__ and _insert_readings (lines 452..460)
InsertReadings ==
    /\ pc = "insert"
    /\ tx' = [open |-> TRUE, readings |-> InsertOrIgnore(readings, parsed),
              station |-> 0, yyyymmddhh |-> NULL]
    /\ pc' = "update"
    /\ readings_inserted' = readings_inserted + Len(parsed)
    /\ UNCHANGED <<storeVars, runVars, ERROR, file_list, i, attempt, station, expected,
                   did_download, temp_dir, produkt, parsed, retr, throttled, backoffs, mails, ingested,
                   calls, tried, downloads, interrupted, repeatVars,
                   added, gaveup, connected, emitted, commit_locks>>

\* executemany raises sqlite3.OperationalError (database is locked)
InsertLocked ==
    /\ pc = "insert"
    /\ Raise
    /\ UNCHANGED <<storeVars, runVars, ERROR, file_list, i, attempt, station, expected,
                   did_download, produkt, parsed, retr, throttled, backoffs, mails, ingested,
                   calls, tried, downloads, interrupted, repeatVars,
                   readings_inserted, added, gaveup, connected, emitted, commit_locks>>

\* line 335: _update_recent (lines 462..477), INSERT OR REPLACE INTO recent
UpdateRecent ==
    /\ pc = "update"
    /\ tx' = [tx EXCEPT !.station = RecentStation(parsed),
                        !.yyyymmddhh = RecentValue(parsed)]
    /\ pc' = "commit"
    /\ UNCHANGED <<storeVars, runVars, ERROR, file_list, i, attempt, station, expected,
                   did_download, temp_dir, produkt, parsed, retr, throttled, backoffs, mails, ingested,
                   calls, tried, downloads, interrupted, repeatVars,
                   readings_inserted, added, gaveup, connected, emitted, commit_locks>>

\* line 336: c.commit() (lines 82..83), and Connection.__exit__
Commit ==
    /\ pc = "commit"
    /\ readings' = tx.readings
    /\ recent' = [recent EXCEPT ![tx.station] = tx.yyyymmddhh]
    /\ tx' = NoTx
    /\ pc' = "cleanup"
    /\ ingested' = IF tx.station = StationOfName(fnam) /\ tx.yyyymmddhh # recent[tx.station]
                   THEN ingested \cup {fnam} ELSE ingested
    /\ added' = added + Cardinality(tx.readings \ readings)
    /\ UNCHANGED <<runVars, ERROR, file_list, i, attempt, station, expected,
                   did_download, temp_dir, produkt, parsed, retr, throttled, backoffs, mails,
                   calls, tried, downloads, interrupted, repeatVars,
                   readings_inserted, gaveup, connected, emitted, commit_locks>>

\* c.commit() raises sqlite3.OperationalError (line 84)
CommitLocked ==
    /\ pc = "commit"
    /\ commit_locks < MaxCommitLocks
    /\ Raise
    /\ commit_locks' = commit_locks + 1
    /\ UNCHANGED <<storeVars, runVars, ERROR, file_list, i, attempt, station, expected,
                   did_download, produkt, parsed, retr, throttled, backoffs, mails, ingested,
                   calls, tried, downloads, interrupted, repeatVars,
                   readings_inserted, added, gaveup, connected, emitted>>

\* end of the with of line 325 and lines 340..342
Cleanup ==
    /\ pc = "cleanup"
    /\ temp_dir' = FALSE
    /\ pc' = "progress"
    /\ UNCHANGED <<storeVars, runVars, ERROR, file_list, i, attempt, station, expected,
                   did_download, produkt, parsed, tx, retr, throttled, backoffs, mails, ingested,
                   calls, tried, downloads, interrupted, repeatVars,
                   readings_inserted, added, gaveup, connected, emitted, commit_locks>>

\* ------------------------------------------------------------------------
\* process_dataset: the loop over the files
\* ------------------------------------------------------------------------

\* the throttle tied to the transaction: no delay after a download without new rows
ShallThrottleIfRows == did_download /\ parsed # <<>>

\* line 514 dropped: sleep after every file
ShallThrottleAlways == TRUE

\* the condition of line 514
ShallThrottle == did_download

\* lines 513..515 and the break of line 524
Progress ==
    /\ pc = "progress"
    /\ throttled' = ShallThrottle
    /\ pc' = "filedone"
    /\ UNCHANGED <<storeVars, runVars, ERROR, file_list, i, attempt, attemptVars, retr,
                   backoffs, mails, ingested,
                   calls, tried, downloads, interrupted, repeatVars,
                   readings_inserted, added, gaveup, connected, emitted, commit_locks>>

\* range(3) taken for range(4): one attempt more for each file
AnotherAttemptOnceMore(done) == done <= MaxAttempts

\* whether the loop of line 510 runs once more after `done` attempts
AnotherAttempt(done) == done < MaxAttempts

\* the else of the loop raises like the one of the listing (line 503): the
\* run ends with the first file that failed for good
BackoffAborts ==
    /\ pc = "except"
    /\ backoffs' = backoffs + 1
    /\ attempt' = attempt + 1
    /\ IF AnotherAttempt(attempt + 1)
       THEN /\ pc' = "file"
            /\ UNCHANGED ERROR
       ELSE /\ ERROR' = TRUE
            /\ pc' = "mail"
    /\ gaveup' = (gaveup \/ ~AnotherAttempt(attempt + 1))
    /\ UNCHANGED <<storeVars, runVars, file_list, i, attemptVars, retr, throttled, mails, ingested,
                   calls, tried, downloads, interrupted, repeatVars,
                   readings_inserted, added, connected, emitted, commit_locks>>

\* the sleep of the except clauses skipped when no attempt is left
BackoffNoLastDelay ==
    /\ pc = "except"
    /\ backoffs' = (IF AnotherAttempt(attempt + 1) THEN backoffs + 1 ELSE backoffs)
    /\ attempt' = attempt + 1
    /\ IF AnotherAttempt(attempt + 1)
       THEN /\ pc' = "file"
            /\ UNCHANGED ERROR
       ELSE /\ ERROR' = TRUE
            /\ pc' = "filedone"
    /\ gaveup' = (gaveup \/ ~AnotherAttempt(attempt + 1))
    /\ UNCHANGED <<storeVars, runVars, file_list, i, attemptVars, retr, throttled, mails, ingested,
                   calls, tried, downloads, interrupted, repeatVars,
                   readings_inserted, added, connected, emitted, commit_locks>>

\* a break in the except clauses: a failed attempt ends the loop of line 510
BackoffSkips ==
    /\ pc = "except"
    /\ backoffs' = backoffs + 1
    /\ attempt' = attempt + 1
    /\ pc' = "filedone"
    /\ UNCHANGED ERROR
    /\ gaveup' = gaveup
    /\ UNCHANGED <<storeVars, runVars, file_list, i, attemptVars, retr, throttled, mails, ingested,
                   calls, tried, downloads, interrupted, repeatVars,
                   readings_inserted, added, connected, emitted, commit_locks>>

\* line 526 dropped: the else of the loop does not set applog.ERROR
BackoffNoFlag ==
    /\ pc = "except"
    /\ backoffs' = backoffs + 1
    /\ attempt' = attempt + 1
    /\ IF AnotherAttempt(attempt + 1)
       THEN /\ pc' = "file"
            /\ UNCHANGED ERROR
       ELSE /\ UNCHANGED ERROR
            /\ pc' = "filedone"
    /\ gaveup' = (gaveup \/ ~AnotherAttempt(attempt + 1))
    /\ UNCHANGED <<storeVars, runVars, file_list, i, attemptVars, retr, throttled, mails, ingested,
                   calls, tried, downloads, interrupted, repeatVars,
                   readings_inserted, added, connected, emitted, commit_locks>>

\* the except clauses (lines 516..522): sleep(3), then the next attempt or the
\* else of the loop (lines 525..527)
Backoff ==
    /\ pc = "except"
    /\ backoffs' = backoffs + 1
    /\ attempt' = attempt + 1
    /\ IF AnotherAttempt(attempt + 1)
       THEN /\ pc' = "file"
            /\ UNCHANGED ERROR
       ELSE /\ ERROR' = TRUE
            /\ pc' = "filedone"
    /\ gaveup' = (gaveup \/ ~AnotherAttempt(attempt + 1))
    /\ UNCHANGED <<storeVars, runVars, file_list, i, attemptVars, retr, throttled, mails, ingested,
                   calls, tried, downloads, interrupted, repeatVars,
                   readings_inserted, added, connected, emitted, commit_locks>>

\* line 506: the next fnam of file_list, or the end of the loop
NextFile ==
    /\ pc = "filedone"
    /\ IF i < Len(file_list)
       THEN /\ i' = i + 1
            /\ pc' = "file"
       ELSE /\ pc' = "close"
            /\ UNCHANGED i
    /\ attempt' = 0
    /\ retr' = 0
    /\ backoffs' = 0
    /\ throttled' = FALSE
    /\ FreshAttempt
    /\ calls' = 0
    /\ downloads' = 0
    /\ UNCHANGED <<storeVars, runVars, ERROR, file_list, mails, ingested,
                   tried, interrupted, repeatVars,
                   readings_inserted, added, gaveup, connected, emitted, commit_locks>>

\* lines 532..535 and the rest of the try of __main__ (lines 590..592)
Close ==
    /\ pc = "close"
    /\ pc' = "mail"
    /\ connected' = FALSE
    /\ emitted' = <<readings_inserted>>
    /\ UNCHANGED <<storeVars, runVars, ERROR, file_list, i, attempt, attemptVars, retr,
                   throttled, backoffs, mails, ingested,
                   calls, tried, downloads, interrupted, repeatVars,
                   readings_inserted, added, gaveup, commit_locks>>

\* the handler of line 593 taken to set applog.ERROR like the one of line 595
InterruptFlags ==
    /\ pc \in {"list", "file", "loaded", "download", "extract", "parse", "insert",
               "update", "commit", "cleanup", "progress", "except", "filedone", "close"}
    /\ interrupted' = TRUE
    /\ ERROR' = TRUE
    /\ file_list' = <<>>
    /\ i' = 0
    /\ attempt' = 0
    /\ retr' = 0
    /\ throttled' = FALSE
    /\ backoffs' = 0
    /\ calls' = 0
    /\ downloads' = 0
    /\ FreshAttempt
    /\ pc' = "mail"
    /\ UNCHANGED <<storeVars, runVars, mails, ingested, tried, repeatVars,
                   readings_inserted, added, gaveup, connected, emitted, commit_locks>>

\* the clause of line 593 dropped: KeyboardInterrupt ends the process before
\* line 598
InterruptUncaught ==
    /\ pc \in {"list", "file", "loaded", "download", "extract", "parse", "insert",
               "update", "commit", "cleanup", "progress", "except", "filedone", "close"}
    /\ interrupted' = TRUE
    /\ file_list' = <<>>
    /\ i' = 0
    /\ attempt' = 0
    /\ retr' = 0
    /\ throttled' = FALSE
    /\ backoffs' = 0
    /\ calls' = 0
    /\ downloads' = 0
    /\ FreshAttempt
    /\ pc' = "idle"
    /\ UNCHANGED <<storeVars, runVars, ERROR, mails, ingested, tried, repeatVars,
                   readings_inserted, added, gaveup, connected, emitted, commit_locks>>

\* KeyboardInterrupt inside the try of __main__ (lines 593..594): the frames of
\* process_dataset and ProcessDataFile.__init__ are left, the with blocks remove
\* the temporary directory and close the connection without commit; applog.ERROR
\* is not touched
Interrupt ==
    /\ pc \in {"list", "file", "loaded", "download", "extract", "parse", "insert",
               "update", "commit", "cleanup", "progress", "except", "filedone", "close"}
    /\ interrupted' = TRUE
    /\ file_list' = <<>>
    /\ i' = 0
    /\ attempt' = 0
    /\ retr' = 0
    /\ throttled' = FALSE
    /\ backoffs' = 0
    /\ calls' = 0
    /\ downloads' = 0
    /\ FreshAttempt
    /\ pc' = "mail"
    /\ UNCHANGED <<storeVars, runVars, ERROR, mails, ingested, tried, repeatVars,
                   readings_inserted, added, gaveup, connected, emitted, commit_locks>>

\* the test of line 135 dropped: every subject starts with SUCCESS
SubjectUnflagged == "SUCCESS"

\* applog.shoot_mail (line 135): the prefix of the subject
Subject == IF ERROR THEN "ERROR" ELSE "SUCCESS"

\* line 598: applog.shoot_mail, and the end of the process
ShootMail ==
    /\ pc = "mail"
    /\ mails' = Append(mails, Subject)
    /\ pc' = "idle"
    /\ connected' = FALSE
    /\ UNCHANGED <<storeVars, runVars, ERROR, file_list, i, attempt, attemptVars, retr,
                   throttled, backoffs, ingested,
                   calls, tried, downloads, interrupted, repeatVars,
                   readings_inserted, added, gaveup, emitted, commit_locks>>

\* ------------------------------------------------------------------------
\* ftplight.repeat, as ftp_nlst and the test of ftplight call it. The module
\* shares no state with hr-temp.py (it writes neither the database nor
\* applog.ERROR), so its caller is run on its own, before the runs of hr-temp.py
\* ------------------------------------------------------------------------

\* the exceptions callback() ends with
Raised == {"TimeoutError", "Exception"}

\* the state the loops of __main__ are in when no run has been started
mainVars == <<storeVars, runVars, pc, ERROR, file_list, i, attempt, attemptVars, retr,
              throttled, backoffs, mails, ingested, calls, tried, downloads, interrupted,
              readings_inserted, added, gaveup, commit_locks, connected, emitted>>

\* the default of do_times (line 36)
DefaultDoTimes == 3

\* test_ftplight.cb is the callback
InTest == test_pc # "idle"

\* test_ftplight.cb, line 22: the first call of cb that does not raise
FirstGoodCall == 5

\* cb.call_cnt after line 21 (callbacks of other callers have no counter)
CbCount == IF InTest THEN call_cnt + 1 ELSE call_cnt

\* test_ftplight.cb, lines 22..24: raise NotImplementedError
CbRaises == CbCount < FirstGoodCall

\* what the callback returns: cb returns None, download of ftp_nlst the listing
CbResult == IF InTest THEN NULL ELSE Listing("historical")

\* repeat(callback, do_times=n, throttle_sec=3.0): lines 46..52
Repeat(n) ==
    /\ pc = "idle"
    /\ runs = 0
    /\ rp_pc = "idle"
    /\ do_times' = n
    /\ rp_pc' = "callback"
    /\ UNCHANGED <<mainVars, rp_attempt, callbacks, sleeps, outcomes, flagged, ret,
                   test_pc, call_cnt, first>>

\* the break of line 61 dropped: a callback that returned is followed by the
\* sleep like one that raised
CallbackReturnsNoBreak ==
    /\ rp_pc = "callback"
    /\ InTest => ~CbRaises
    /\ call_cnt' = CbCount
    /\ callbacks' = callbacks + 1
    /\ outcomes' = Append(outcomes, "ok")
    /\ rp_pc' = "sleep"
    /\ UNCHANGED <<mainVars, do_times, rp_attempt, sleeps, flagged, ret, test_pc, first>>

\* lines 54, 60..61 and 68: callback() returns, break, return True, result
CallbackReturns ==
    /\ rp_pc = "callback"
    /\ InTest => ~CbRaises
    /\ call_cnt' = CbCount
    /\ callbacks' = callbacks + 1
    /\ outcomes' = Append(outcomes, "ok")
    /\ ret' = [success |-> TRUE, result |-> CbResult, returned |-> TRUE]
    /\ rp_pc' = "done"
    /\ UNCHANGED <<mainVars, do_times, rp_attempt, sleeps, flagged, test_pc, first>>

\* lines 54..59: callback() raises TimeoutError or another Exception
CallbackRaises(e) ==
    /\ rp_pc = "callback"
    /\ InTest => (CbRaises /\ e = "Exception")
    /\ call_cnt' = CbCount
    /\ callbacks' = callbacks + 1
    /\ outcomes' = Append(outcomes, e)
    /\ rp_pc' = "sleep"
    /\ UNCHANGED <<mainVars, do_times, rp_attempt, sleeps, flagged, ret, test_pc, first>>

\* whether the loop of line 52 runs once more after `done` attempts
RepeatAgain(done) == done < do_times

\* lines 62..63: sleep(throttle_sec), then the next attempt or the else of the
\* loop (lines 64..67)
RepeatSleep ==
    /\ rp_pc = "sleep"
    /\ sleeps' = sleeps + 1
    /\ rp_attempt' = rp_attempt + 1
    /\ IF RepeatAgain(rp_attempt + 1)
       THEN /\ rp_pc' = "callback"
            /\ UNCHANGED <<flagged, ret>>
       ELSE /\ flagged' = TRUE
            /\ ret' = [success |-> FALSE, result |-> NULL, returned |-> TRUE]
            /\ rp_pc' = "done"
    /\ UNCHANGED <<mainVars, do_times, callbacks, outcomes, test_pc, call_cnt, first>>

\* the process that called repeat ends
RepeatExit ==
    /\ rp_pc = "done"
    /\ ~InTest
    /\ rp_pc' = "idle"
    /\ do_times' = 0
    /\ rp_attempt' = 0
    /\ callbacks' = 0
    /\ sleeps' = 0
    /\ outcomes' = <<>>
    /\ flagged' = FALSE
    /\ ret' = NoRet
    /\ UNCHANGED <<mainVars, test_pc, call_cnt, first>>

\* test_ftplight.main_repeat, line 31: a new process, its first repeat(cb)
MainRepeat ==
    /\ pc = "idle"
    /\ runs = 0
    /\ rp_pc = "idle"
    /\ test_pc' = "first"
    /\ do_times' = DefaultDoTimes
    /\ rp_pc' = "callback"
    /\ UNCHANGED <<mainVars, rp_attempt, callbacks, sleeps, outcomes, flagged, ret,
                   call_cnt, first>>

\* cb taken to start counting again at the second call of repeat
MainRepeatAgainFresh ==
    /\ rp_pc = "done"
    /\ test_pc = "first"
    /\ first' = [ret |-> ret, callbacks |-> callbacks]
    /\ test_pc' = "second"
    /\ do_times' = DefaultDoTimes
    /\ rp_attempt' = 0
    /\ callbacks' = 0
    /\ sleeps' = 0
    /\ outcomes' = <<>>
    /\ ret' = NoRet
    /\ rp_pc' = "callback"
    /\ call_cnt' = 0
    /\ UNCHANGED <<mainVars, flagged>>

\* main_repeat, line 32: the first call has returned, repeat(cb) once more; cb
\* keeps its attribute call_cnt
MainRepeatAgain ==
    /\ rp_pc = "done"
    /\ test_pc = "first"
    /\ first' = [ret |-> ret, callbacks |-> callbacks]
    /\ test_pc' = "second"
    /\ do_times' = DefaultDoTimes
    /\ rp_attempt' = 0
    /\ callbacks' = 0
    /\ sleeps' = 0
    /\ outcomes' = <<>>
    /\ ret' = NoRet
    /\ rp_pc' = "callback"
    /\ UNCHANGED <<mainVars, flagged, call_cnt>>

\* main_repeat returns and the process of the test ends
MainRepeatExit ==
    /\ rp_pc = "done"
    /\ test_pc = "second"
    /\ rp_pc' = "idle"
    /\ do_times' = 0
    /\ rp_attempt' = 0
    /\ callbacks' = 0
    /\ sleeps' = 0
    /\ outcomes' = <<>>
    /\ flagged' = FALSE
    /\ ret' = NoRet
    /\ test_pc' = "idle"
    /\ call_cnt' = 0
    /\ first' = NoFirst
    /\ UNCHANGED mainVars

Next ==
    \/ \E k \in Kinds, day \in Todays : StartRun(k, day)
    \/ ListFiles
    \/ ListTimeout
    \/ ListError
    \/ LoadStation
    \/ LoadStationLocked
    \/ CheckExpected
    \/ Download
    \/ DownloadFails
    \/ ExtractStep
    \/ ParseStep
    \/ InsertReadings
    \/ InsertLocked
    \/ UpdateRecent
    \/ Commit
    \/ CommitLocked
    \/ Cleanup
    \/ Progress
    \/ Backoff
    \/ NextFile
    \/ Close
    \/ Interrupt
    \/ ShootMail
    \/ \E n \in DoTimes : Repeat(n)
    \/ CallbackReturns
    \/ \E e \in Raised : CallbackRaises(e)
    \/ RepeatSleep
    \/ RepeatExit
    \/ MainRepeat
    \/ MainRepeatAgain
    \/ MainRepeatExit

Spec == Init /\ [][Next]_vars

\* a step of a started run: the interpreter executes the statements of __main__,
\* process_dataset and ProcessDataFile.__init__ one after the other, every call
\* returns or raises
RunStep ==
    \/ ListFiles
    \/ ListTimeout
    \/ ListError
    \/ LoadStation
    \/ LoadStationLocked
    \/ CheckExpected
    \/ Download
    \/ DownloadFails
    \/ ExtractStep
    \/ ParseStep
    \/ InsertReadings
    \/ InsertLocked
    \/ UpdateRecent
    \/ Commit
    \/ CommitLocked
    \/ Cleanup
    \/ Progress
    \/ Backoff
    \/ NextFile
    \/ Close
    \/ ShootMail

\* the runs of hr-temp.py alone, up to MaxLiveRuns of them
LiveNext ==
    \/ \E k \in Kinds, day \in Todays : runs < MaxLiveRuns /\ StartRun(k, day)
    \/ RunStep
    \/ Interrupt

\* the places of a run in __main__, process_dataset and ProcessDataFile.__init__
PCs == {"idle", "list", "file", "loaded", "download", "extract", "parse", "insert",
        "update", "commit", "cleanup", "progress", "except", "filedone", "close", "mail"}

\* the started process goes on to another place of the program
Proceeds == pc # "idle" /\ pc' \in PCs \ {pc}

\* a started run is not left alone: the interpreter goes on executing it, every
\* call returns or raises (the user may or may not interrupt it), so the run
\* does not stay at one place of the program for ever
LiveSpec == Init /\ [][LiveNext]_vars /\ WF_pc(Proceeds)

\* ------------------------------------------------------------------------
\* Properties
\* ------------------------------------------------------------------------

\* the positions inside the loop over the files
InFile == pc \in {"file", "loaded", "download", "extract", "parse", "insert", "update",
                  "commit", "cleanup", "progress", "except", "filedone"}

\* the positions of an attempt after _parse returned
AfterParse == pc \in {"insert", "update", "commit", "cleanup"}

\* the file being processed finished with the break of line 524
FileSucceeded == pc = "filedone" /\ attempt < MaxAttempts

\* the watermark table as Station.__init__ reads it
Watermark(st) == IfNull(recent[st], NULLDATUM)

\* the line numbers (header excluded) of the payload lines strictly newer than wm
NewerLines(lines, wm) == {k \in 2..Len(lines) : StrLess(wm, lines[k][2])}

\* the position of line k among the lines S, in file order
Rank(S, k) == Cardinality({j \in S : j < k}) + 1

\* C5: whenever _parse has returned, its result is exactly the non-header lines
\* of the payload whose timestamp is strictly greater than the watermark of the
\* station, one reading per such line and in the order of the file.
C5_Filtering ==
    AfterParse =>
        LET new == NewerLines(produkt, station.dwdts_recent)
        IN  /\ Len(parsed) = Cardinality(new)
            /\ \A k \in new :
                  /\ parsed[Rank(new, k)].dwdts = produkt[k][2]
                  /\ parsed[Rank(new, k)].station = IntOf(produkt[k][1])

\* C5 witness: a parse that kept some lines of the payload and suppressed others
C5_Witness ==
    /\ pc = "insert"
    /\ Len(parsed) >= 1
    /\ Len(parsed) < Len(produkt) - 1

\* the two watermarks of a station disagree: the row of table recent and the
\* greatest timestamp of the station's rows in table readings
Mismatch(st) == StationRow(st).dwdts_recent # StationRow(st).dwdts_readings

\* C1: while a file is processed whose archive was ingested before (its rows
\* committed and the watermark of its station advanced), no step adds a row to
\* table readings or changes the watermark of the file's station.
C1_Idempotence ==
    [][ (InFile /\ fnam \in ingested) =>
            /\ readings' = readings
            /\ recent'[StationOfName(fnam)] = recent[StationOfName(fnam)] ]_vars

\* C1 witness: an ingested archive was downloaded and parsed once more, and no
\* line of it was newer than the watermark
C1_Witness ==
    /\ pc = "cleanup"
    /\ fnam \in ingested
    /\ did_download
    /\ parsed = <<>>
    /\ Len(produkt) > 1

\* C2: no step lowers the value table recent holds for a station.
C2_Monotonicity ==
    [][ \A s \in StationIds : StrLE(Watermark(s), IfNull(recent'[s], NULLDATUM)) ]_vars

\* C3: in every committed state of the store the watermark of each station
\* equals the greatest timestamp of its stored readings.
C3_WatermarkIsMaxReading == \A s \in Stationen : ~Mismatch(s)

\* C4: while the two watermarks of the station of the file disagree and the
\* attempt has downloaded nothing, the attempt is at its start, in the except
\* clause or over: the station was not loaded, no RETR was sent, no temporary
\* directory exists and no transaction is open.
C4_MismatchStops ==
    (InFile /\ Mismatch(StationOfName(fnam)) /\ ~did_download) =>
        /\ pc \in {"file", "except", "filedone"}
        /\ station = NoStation
        /\ retr = 0
        /\ ~temp_dir
        /\ tx = NoTx

\* C4 witness: a file of a station with disagreeing watermarks has failed all
\* its attempts
C4_Witness ==
    /\ pc = "filedone"
    /\ attempt = MaxAttempts
    /\ Mismatch(StationOfName(fnam))
    /\ StationOfName(fnam) \in Stationen
    /\ ~did_download

\* the stored rows a payload line with the key of line k
LineStored(table, lines, k) ==
    \E x \in table : x.station = IntOf(lines[k][1]) /\ x.dwdts = lines[k][2]

\* C6: the commit of a file whose payload has a line newer than the watermark
\* W of its station adds exactly the lines newer than W to table readings and
\* sets the watermark of the station to the timestamp of the last of them.
C6_LastRowBecomesWatermark ==
    [][ (pc = "commit" /\ pc' = "cleanup") =>
            LET lines == Extract(Archive(fnam))
                new   == NewerLines(lines, station.dwdts_recent)
                last  == CHOOSE k \in new : \A j \in new : j <= k
            IN  /\ new # {}
                /\ \A k \in new : LineStored(readings', lines, k)
                /\ Cardinality(readings' \ readings) = Cardinality(new)
                /\ IfNull(recent'[StationOfName(fnam)], NULLDATUM) = lines[last][2] ]_vars

\* C7: after the commit of a batch of readings the watermark of the station
\* equals the greatest timestamp in the batch.
C7_MaxOfBatchBecomesWatermark ==
    [][ (pc = "commit" /\ pc' = "cleanup") =>
            IfNull(recent'[StationOfName(fnam)], NULLDATUM)
                = MaxStr({parsed[j].dwdts : j \in 1..Len(parsed)}) ]_vars

IsHistName(f) == EndsWith(f, U \o S_hist_zip)

IsAktName(f) == EndsWith(f, U \o S_akt_zip)

\* the end-date D of a historical file name: the eight characters before
\* "_hist.zip"
EndDate(f) == SubSeq(f, Len(f) - Len(S_hist_zip) - 8, Len(f) - Len(S_hist_zip) - 1)

\* the day before a day, by the calendar
DayBefore(day) ==
    IF day.d > 1 THEN [y |-> day.y, m |-> day.m, d |-> day.d - 1]
    ELSE IF day.m > 1
         THEN [y |-> day.y, m |-> day.m - 1, d |-> DaysInMonth(day.y, day.m - 1)]
         ELSE [y |-> day.y - 1, m |-> 12, d |-> 31]

\* C8 as stated: for a historical file with end-date D the expectation check is
\* true exactly if the watermark of the station is less than D followed by "23".
C8_HistExpectedIffBelowEnd ==
    (expected # "None" /\ IsHistName(fnam)) =>
        ((expected = "True") <=> StrLess(station.dwdts_readings, EndDate(fnam) \o S_23))

\* C8 amended: for a historical file with end-date D the expectation check is
\* true exactly if the watermark is less than D followed by "23" and the cut-off
\* does not apply, that is not both the watermark is greater than "1701" (the
\* station has readings) and D followed by "23" is less than "2018".
C8_HistExpectedIffBelowEndAndNotCutOff ==
    (expected # "None" /\ IsHistName(fnam)) =>
        ((expected = "True") <=>
            /\ StrLess(station.dwdts_readings, EndDate(fnam) \o S_23)
            /\ ~(/\ StrLess(S_1701, station.dwdts_readings)
                 /\ StrLess(EndDate(fnam) \o S_23, S_2018)))

\* C8 witness: a historical file that ends after the watermark of a station with
\* readings was checked and is not expected
C8_Witness ==
    /\ expected = "False"
    /\ IsHistName(fnam)
    /\ station.dwdts_readings # NULLDATUM
    /\ StrLess(station.dwdts_readings, EndDate(fnam) \o S_23)

\* C9: for a current file the expectation check is true exactly if the
\* watermark of the station is less than the date of yesterday followed by "23".
C9_AktExpectedIffBelowYesterday ==
    (expected # "None" /\ IsAktName(fnam)) =>
        ((expected = "True") <=>
            StrLess(station.dwdts_readings, StrfYmd(DayBefore(today)) \o S_23))

\* C9 witness: a current file was checked for a station whose watermark is hour
\* 23 of yesterday, and is not expected
C9_Witness ==
    /\ expected = "False"
    /\ IsAktName(fnam)
    /\ station.dwdts_readings = StrfYmd(DayBefore(today)) \o S_23

\* C10: an attempt whose expectation check returned false sends no RETR, creates
\* no temporary directory and sleeps no throttle delay; and when a file has
\* succeeded, the throttle delay was slept exactly if the attempt sent a RETR.
C10_SkipAndThrottle ==
    /\ expected = "False" => (retr = 0 /\ ~did_download /\ ~temp_dir /\ ~throttled
                                /\ pc \in {"progress", "filedone"})
    /\ FileSucceeded => (throttled <=> retr > 0)

\* C10 witness: a file succeeded on an expectation check that returned false
C10_Witness ==
    /\ FileSucceeded
    /\ expected = "False"
    /\ retr = 0
    /\ ~throttled

\* ------------------------------------------------------------------------
\* The retry loops
\* ------------------------------------------------------------------------

\* callback() raised in the first two calls and returned in the third
FailedTwiceThenOk ==
    /\ Len(outcomes) = 3
    /\ outcomes[1] \in Raised
    /\ outcomes[2] \in Raised
    /\ outcomes[3] = "ok"

\* C11: with at most 3 attempts, an operation that fails on its first two
\* attempts and succeeds on the third succeeds in the end, is invoked exactly 3
\* times and is followed by exactly 2 delays: repeat returns success after 3
\* calls of callback and 2 sleeps and does not flag an error; a file processed
\* at the third attempt was handed to ProcessDataFile 3 times with 2 sleeps
\* of the except clauses
C11_TwoFailuresThenSuccess ==
    /\ (rp_pc = "done" /\ do_times >= 3 /\ FailedTwiceThenOk) =>
            /\ ret.returned /\ ret.success /\ ret.result # NULL
            /\ callbacks = 3
            /\ sleeps = 2
            /\ ~flagged
    /\ (rp_pc \in {"callback", "sleep"} /\ do_times >= 3 /\ Len(outcomes) >= 3) =>
            outcomes[3] # "ok"
    /\ (FileSucceeded /\ attempt = 2) =>
            /\ calls = 3
            /\ backoffs = 2

\* repeat(callback, 3) has returned after two failures and a success
C11_Witness ==
    /\ rp_pc = "done"
    /\ do_times = 3
    /\ FailedTwiceThenOk
    /\ outcomes[1] = "TimeoutError"
    /\ outcomes[2] = "Exception"
    /\ ret.success

\* every attempt at the current file raised: the else of the loop of line 510
Exhausted == pc = "filedone" /\ attempt = MaxAttempts

\* every callback() of the call of repeat raised
AllRaised ==
    /\ Len(outcomes) = do_times
    /\ \A k \in 1..Len(outcomes) : outcomes[k] \in Raised

\* C12: with at most 3 attempts, a per-file operation that fails on every
\* attempt is a failure: after 3 calls the error flag is set and the loop goes
\* on with the next file of the listing (or ends after the last one); repeat
\* returns (False, None) after do_times raising callbacks and flags the error
C12_ExhaustionFlagsAndProceeds ==
    /\ [](Exhausted => (ERROR /\ calls = MaxAttempts))
    /\ []((rp_pc = "done" /\ AllRaised) =>
            (ret.returned /\ ~ret.success /\ ret.result = NULL /\ flagged
             /\ callbacks = do_times))
    /\ [][(Exhausted /\ ~interrupted') =>
            /\ ERROR'
            /\ file_list' = file_list
            /\ IF i < Len(file_list)
               THEN pc' = "file" /\ i' = i + 1 /\ attempt' = 0 /\ calls' = 0
               ELSE pc' = "close"]_vars

\* the loop is at the second file after every attempt at the first one failed
C12_Witness ==
    /\ pc = "file"
    /\ i = 2
    /\ attempt = 0
    /\ ERROR
    /\ tried = {file_list[1]}

\* the files of the listing before position k
FilesBefore(k) == { file_list[j] : j \in 1..(k - 1) }

\* C13: per-file failures never abort the run: the loop over the listing is
\* left only after its last file (or by an interrupt), every file before the
\* current one has been handed to ProcessDataFile, and when the loop has
\* ended every file of the listing has been, whatever the earlier files raised
C13_EveryFileAttempted ==
    /\ [](InFile => /\ FilesBefore(i) \subseteq tried
                    /\ (pc # "file" => fnam \in tried))
    /\ [](pc = "close" => tried = FilesBefore(Len(file_list) + 1))
    /\ [][(InFile /\ ~interrupted') =>
            \/ InFile' /\ file_list' = file_list /\ i' \in {i, i + 1}
            \/ pc' = "close" /\ i = Len(file_list) /\ file_list' = file_list]_vars

\* the loop has ended after a file failed for good, and every file was tried
C13_Witness ==
    /\ pc = "close"
    /\ ERROR
    /\ file_list = Listing(kind)
    /\ Len(file_list) = 5
    /\ tried = FilesBefore(6)

\* the archive of the current file has no entry that starts with produkt_
Structural == InFile /\ ExtractRaises(Archive(fnam))

\* C14: an archive without a payload entry is fatal for its file and is not
\* retried: the file is downloaded at most once in the run, and after the
\* error no further attempt at it is made
C14_StructuralErrorNotRetried ==
    /\ [](Structural => downloads <= 1)
    /\ [][(Structural /\ downloads >= 1) => calls' <= calls]_vars

\* C15: listing exhaustion is fatal for the whole run: the listing is tried at
\* most 3 times; when the last attempt fails (or an attempt fails with an
\* exception the loop does not catch) the error flag is set and the run goes
\* to its end; up to there no file has been looked up or downloaded and
\* nothing is written to the store
C15_ListingExhaustionFatal ==
    /\ [](pc = "list" => /\ attempt < MaxAttempts
                         /\ tried = {} /\ calls = 0
                         /\ retr = 0 /\ downloads = 0 /\ ~did_download
                         /\ tx = NoTx)
    /\ [][(pc = "list" /\ attempt' = MaxAttempts) =>
            (pc' = "mail" /\ ERROR')]_vars
    /\ [][(pc = "list" /\ pc' = "mail" /\ ~interrupted') =>
            (ERROR' /\ file_list' = <<>> /\ tried' = {} /\ calls' = 0 /\ retr' = 0
             /\ downloads' = 0)]_vars
    /\ [][(pc \in {"list", "mail"}) =>
            (storeVars' = storeVars /\ tried' = tried /\ (pc = "mail" => pc' = "idle"))]_vars

\* the third attempt at the listing timed out and the run is at its end
C15_Witness ==
    /\ pc = "mail"
    /\ attempt = MaxAttempts
    /\ backoffs = MaxAttempts
    /\ file_list = <<>>
    /\ ERROR
    /\ tried = {}
    /\ ~interrupted

\* C16: the listing is retried after a timeout and after any other exception
\* alike: an attempt at the listing that fails while attempts remain is
\* followed by the delay and another attempt (in process_dataset and in
\* repeat, which ftp_nlst uses)
C16_ListingRetriedOnAnyException ==
    /\ [][(pc = "list" /\ attempt + 1 < MaxAttempts /\ ~interrupted'
            /\ pc' \notin {"file", "close"}) =>
            (pc' = "list" /\ attempt' = attempt + 1 /\ backoffs' = backoffs + 1)]_vars
    /\ [][(rp_pc = "callback" /\ rp_pc' # "done") => rp_pc' = "sleep"]_vars
    /\ [][(rp_pc = "sleep" /\ rp_attempt + 1 < do_times) =>
            (rp_pc' = "callback" /\ sleeps' = sleeps + 1)]_vars

\* ------------------------------------------------------------------------
\* Temporary directory, insertion, sentinel, notification
\* ------------------------------------------------------------------------

\* the positions inside the with of line 325
InTempDir == pc \in {"download", "extract", "parse", "insert", "update", "commit",
                     "cleanup"}

\* C17: the temporary directory of a file exists only while the file is being
\* downloaded, extracted, parsed and written; it is gone on every way out
\* (success, failed download, extraction, parse or write, interrupt), so none
\* exists when the next attempt or the next file starts or when the run ends
C17_TempDirRemoved ==
    /\ InTempDir => temp_dir
    /\ ~InTempDir => ~temp_dir

\* an attempt failed in _parse, after download and extraction, and the
\* directory is gone
C17_Witness ==
    /\ pc = "except"
    /\ did_download
    /\ ~ExtractRaises(Archive(fnam))
    /\ Parse(Extract(Archive(fnam)), station.dwdts_recent).raised
    /\ ~temp_dir

\* the natural key of a reading
SameKey(x, y) == x.station = y.station /\ x.dwdts = y.dwdts

\* the rows of a list of readings
RowsOf(rows) == { rows[k] : k \in 1..Len(rows) }

\* C18: insertion is conflict-tolerant: after _insert_readings every stored
\* row is still there with its values, every row of the batch has its key in
\* the table (none was refused), nothing else was added, and no key is there
\* twice; the committed table never loses or changes a row
C18_InsertIgnoresConflicts ==
    /\ [](pc \in {"update", "commit"} =>
            /\ readings \subseteq tx.readings
            /\ \A r \in RowsOf(parsed) : \E x \in tx.readings : SameKey(x, r)
            /\ tx.readings \ readings \subseteq RowsOf(parsed)
            /\ \A x, y \in tx.readings : SameKey(x, y) => x = y)
    /\ [](\A x, y \in readings : SameKey(x, y) => x = y)
    /\ [][readings \subseteq readings']_vars

\* the batch has a row whose key is stored with other values, and the insert
\* went through
C18_Witness ==
    /\ pc = "update"
    /\ \E r \in RowsOf(parsed) : \E x \in readings : SameKey(x, r) /\ x # r
    /\ tx.readings = readings

\* a column without its leading and trailing blanks
Trimmed(s) ==
    LET inked == {k \in 1..Len(s) : s[k] # " "}
    IN  IF inked = {} THEN <<>>
        ELSE LET a == CHOOSE k \in inked : \A j \in inked : k <= j
                 b == CHOOSE k \in inked : \A j \in inked : j <= k
             IN  [j \in 1..(b - a + 1) |-> s[a + j - 1]]

\* C19: in every reading the parser returned, the temperature is missing
\* exactly if the temperature column of its line, trimmed, is "-999", and the
\* humidity is missing exactly if the humidity column, trimmed, is "-999",
\* each on its own; a column that is the sentinel is never stored as a number
C19_SentinelMapping ==
    AfterParse =>
        LET new == NewerLines(produkt, station.dwdts_recent)
        IN  \A k \in new :
              LET r == parsed[Rank(new, k)]
              IN  /\ r.temp = NULL <=> Trimmed(produkt[k][4]) = <<"-", "9", "9", "9">>
                  /\ r.humid = NULL <=> Trimmed(produkt[k][5]) = <<"-", "9", "9", "9">>
                  /\ r.temp # NULL => Len(r.temp) = 1
                  /\ r.humid # NULL => Len(r.humid) = 1

\* the parser returned a reading without temperature but with humidity and one
\* with temperature but without humidity (the sentinel with blanks around it)
C19_Witness ==
    /\ pc = "insert"
    /\ \E r \in RowsOf(parsed) : r.temp = NULL /\ r.humid # NULL
    /\ \E r \in RowsOf(parsed) : r.temp # NULL /\ r.humid = NULL
    /\ \E k \in 2..Len(produkt) : produkt[k][5] = F_999pad

\* C20: the notification is sent exactly once at the end of a run, whatever
\* its outcome: no mail while the run is going on, a run ends only through
\* applog.shoot_mail, and after it exactly one mail has been handed over (after
\* a normal run, a degraded one, a failed listing and an interrupted run)
C20_OneMailPerRun ==
    /\ [](pc # "idle" => mails = <<>>)
    /\ [](pc = "idle" /\ runs > 0 => Len(mails) = 1)
    /\ [][(pc # "idle" /\ pc' = "idle") =>
            (pc = "mail" /\ mails' = <<Subject>>)]_vars

\* an interrupted run has ended with its one mail
C20_Witness ==
    /\ pc = "idle"
    /\ runs > 0
    /\ interrupted
    /\ tried # {}
    /\ Len(mails) = 1

\* ------------------------------------------------------------------------
\* C21..C30
\* ------------------------------------------------------------------------

\* the run went through ftp.close() and the statistics: the listing was there
\* and the loop over the files ended
Completed == emitted # NULL

\* C21: a run in which a file was given up after its last attempt is flagged and
\* its mail carries ERROR; a run that got its listing and gave up no file is
\* not flagged and its mail carries SUCCESS
C21_FlagAndSubject ==
    /\ gaveup => ERROR
    /\ (pc = "idle" /\ gaveup) => mails = <<"ERROR">>
    /\ (Completed /\ ~gaveup) => ~ERROR
    /\ (pc = "idle" /\ Completed /\ ~gaveup) => mails = <<"SUCCESS">>

C21_Witness ==
    /\ pc = "idle"
    /\ Completed
    /\ gaveup
    /\ ingested # {}
    /\ mails = <<"ERROR">>

\* a run without a flag in which a file needed a second attempt
C21_RetriedSuccess ==
    /\ pc = "mail"
    /\ Completed
    /\ ~gaveup
    /\ ~ERROR
    /\ commit_locks > 0

\* the loop over the files has ended: the last file of the listing was attempted
LastFileDone == pc = "filedone" /\ i = Len(file_list)

\* C22: after the last file of the listing has been attempted the connection is
\* closed and the statistics are written, however many files were given up
\* (unless the user interrupts the run)
C22_DegradedRunCompletes ==
    /\ LastFileDone ~> ((~connected /\ Completed) \/ interrupted)
    /\ gaveup ~> ((~connected /\ Completed) \/ interrupted)

C22_Witness ==
    /\ pc = "mail"
    /\ gaveup
    /\ ~interrupted
    /\ ~connected
    /\ Completed
    /\ file_list = Listing(kind)

\* C23: repeat calls the callback at most do_times times, stops at the first
\* call that does not raise and returns (True, its result); it returns
\* (False, None) exactly when all do_times calls raised. What the callback keeps
\* carries over from one call of repeat to the next: with cb, which raises in
\* its first 4 calls, the first repeat of main_repeat fails after 3 callbacks
\* and the second succeeds at its 2nd callback
C23_RepeatContract ==
    /\ rp_pc # "idle" => callbacks <= do_times
    /\ rp_pc = "done" =>
          /\ ret.returned
          /\ callbacks = Len(outcomes)
          /\ \A k \in 1..(callbacks - 1) : outcomes[k] \in Raised
          /\ ret.success <=> outcomes[callbacks] = "ok"
          /\ ret.success => ret.result = (IF InTest THEN NULL ELSE Listing("historical"))
          /\ (~ret.success /\ ret.result = NULL) <=> AllRaised
    /\ (rp_pc = "done" /\ test_pc = "first") =>
          /\ ~ret.success
          /\ callbacks = 3
    /\ (rp_pc = "done" /\ test_pc = "second") =>
          /\ first = [ret |-> [success |-> FALSE, result |-> NULL, returned |-> TRUE],
                      callbacks |-> 3]
          /\ ret.success
          /\ callbacks = 2
          /\ call_cnt = 5

C23_Witness ==
    /\ rp_pc = "done"
    /\ test_pc = "second"
    /\ ~first.ret.success
    /\ first.callbacks = 3
    /\ ret.success
    /\ callbacks = 2

\* C24: the rows-inserted counter of the statistics written at the end of a run
\* equals the number of rows the run added to table readings
C24_CounterCountsAddedRows ==
    Completed => emitted[1] = added

\* C25: the archives are processed one at a time in the order of the listing:
\* the loop goes to the next file only from the end of the current one, which
\* is reached by a successful attempt or by the last failed one, and no later
\* file has been started; within one archive all filtered rows are in the table
\* of the transaction before the watermark is written
C25_Ordering ==
    /\ [][(InFile /\ InFile' /\ i' # i) => (pc = "filedone" /\ i' = i + 1)]_vars
    /\ [][(pc' = "filedone" /\ pc # "filedone") =>
            (pc = "progress" \/ (pc = "except" /\ attempt' = MaxAttempts))]_vars
    /\ [](InFile => tried \subseteq FilesBefore(i + 1))
    /\ [](pc = "insert" => tx = NoTx)
    /\ [](pc = "update" => /\ tx.yyyymmddhh = NULL
                           /\ \A r \in RowsOf(parsed) : HasKey(tx.readings, r))
    /\ [][recent' # recent =>
            (pc = "commit" /\ \A r \in RowsOf(parsed) : HasKey(readings', r))]_vars

C25_Witness ==
    /\ pc = "commit"
    /\ i = 2
    /\ Len(parsed) >= 2
    /\ tx.yyyymmddhh # NULL
    /\ \A r \in RowsOf(parsed) : HasKey(tx.readings, r)
    /\ file_list[1] \in tried

\* the year of the end-date of a historical file name
EndYear(f) == IntOf(SubSeq(EndDate(f), 1, 4))

\* the station loaded for this attempt has readings
HasReadings == station.dwdts_readings # NULLDATUM

\* C26: a historical file that ends before 2018 is not expected and is skipped
\* when its station has readings, wherever the watermark stands; the file of a
\* station without readings is expected
C26_HistoricalCutoff ==
    (expected # "None" /\ IsHistName(fnam)) =>
        /\ (HasReadings /\ EndYear(fnam) < 2018) =>
              /\ expected = "False"
              /\ retr = 0
              /\ ~did_download
              /\ pc \in {"progress", "filedone"}
        /\ ~HasReadings => expected = "True"

\* a file that ends before 2018 and after the watermark was skipped
C26_Witness ==
    /\ FileSucceeded
    /\ IsHistName(fnam)
    /\ HasReadings
    /\ EndYear(fnam) < 2018
    /\ StrLess(station.dwdts_readings, EndDate(fnam) \o S_23)
    /\ expected = "False"
    /\ retr = 0

\* a file that ends before 2018 was downloaded for a station without readings
C26_FreshStation ==
    /\ pc = "extract"
    /\ IsHistName(fnam)
    /\ ~HasReadings
    /\ EndYear(fnam) < 2018
    /\ did_download

\* C27: a started run ends, whatever the listing holds and whichever of the
\* listing, the station lookup, the download, the extraction, the parsing and
\* the database operations fail; the listing is asked for at most 3 times and
\* ProcessDataFile is called at most 3 times for each file
C27_Termination ==
    /\ (pc # "idle") ~> (pc = "idle")
    /\ [](pc = "list" => attempt < MaxAttempts)
    /\ [](InFile => (attempt <= MaxAttempts /\ calls <= MaxAttempts))

C27_Witness ==
    /\ pc = "idle"
    /\ runs > 0
    /\ ~interrupted
    /\ gaveup
    /\ tried = RowsOf(Listing(kind))
    /\ mails # <<>>

\* an attempt downloaded the archive and _parse returned no row
EmptyParse == did_download /\ parsed = <<>> /\ pc \in {"cleanup", "progress"}

\* C28: when the downloaded archive holds no row newer than the watermark, no
\* transaction is opened: table readings, table recent and the rows-inserted
\* counter stay as they are, the attempt ends the file successfully, and the
\* throttle delay is slept because a download took place
C28_EmptyParseWritesNothing ==
    /\ [](EmptyParse => (tx = NoTx /\ retr > 0 /\ attempt < MaxAttempts))
    /\ [][(pc \in {"file", "loaded", "download", "extract", "parse"} \/ EmptyParse) =>
            UNCHANGED <<readings, recent, readings_inserted, ERROR>>]_vars
    /\ [][(pc = "parse" /\ parsed' = <<>> /\ pc' \notin {"except", "mail"}) =>
            (pc' = "cleanup" /\ tx' = NoTx)]_vars
    /\ [][(EmptyParse /\ ~interrupted') =>
            /\ pc' = (IF pc = "cleanup" THEN "progress" ELSE "filedone")
            /\ attempt' = attempt
            /\ pc' = "filedone" => throttled']_vars

C28_Witness ==
    /\ FileSucceeded
    /\ did_download
    /\ parsed = <<>>
    /\ throttled
    /\ retr > 0
    /\ station.dwdts_readings # NULLDATUM

\* C29: every attempt of a file starts from scratch: the station is read from
\* the tables again, the expectation check is made again and, if it holds, the
\* archive is downloaded again, also after an attempt that failed behind the
\* download; a file is downloaded at most 3 times in a run; a failed attempt has
\* committed nothing and an attempt that committed is not followed by a retry,
\* so no retry inserts rows an earlier attempt committed
C29_RetryFromScratch ==
    /\ [](pc = "loaded" => /\ station = StationRow(StationOfName(fnam))
                           /\ expected = "None"
                           /\ ~did_download
                           /\ retr = 0
                           /\ parsed = <<>>
                           /\ tx = NoTx)
    /\ [][(pc' = "download" /\ pc # "download") =>
            (pc = "loaded" /\ expected' = "True")]_vars
    /\ [][(pc' = "extract" /\ pc # "extract") =>
            (pc = "download" /\ downloads' = downloads + 1)]_vars
    /\ [](InFile => (downloads <= MaxAttempts /\ downloads <= calls))
    /\ [][pc' = "except" => (readings' = readings /\ recent' = recent /\ tx' = NoTx)]_vars
    /\ [][readings' # readings => (pc = "commit" /\ pc' = "cleanup")]_vars
    /\ [][(pc \in {"cleanup", "progress"}) => pc' # "except"]_vars

\* the archive is downloaded a second time after a commit that found the
\* database locked
C29_Witness ==
    /\ pc = "extract"
    /\ attempt >= 1
    /\ downloads = attempt + 1
    /\ commit_locks = 1
    /\ did_download

\* the file being processed names a station that table stationen does not hold
UnknownStation == InFile /\ StationOfName(fnam) \notin Stationen

\* the attempts at the file being processed have got no station, made no
\* expectation check, sent no RETR and opened no directory and no transaction
NothingDone ==
    /\ pc \in {"file", "except", "filedone"}
    /\ station = NoStation
    /\ expected = "None"
    /\ retr = 0
    /\ downloads = 0
    /\ ~did_download
    /\ ~temp_dir
    /\ tx = NoTx

\* C30: a file of the listing whose station has no row in table stationen is
\* never downloaded and writes nothing: every attempt fails in Station.__init__,
\* before the download (whatever was loaded, downloaded or written belongs to
\* the file of a known station), the file is given up after 3 attempts with the
\* run flagged, and the loop goes on with the next file
C30_UnknownStationFile ==
    /\ []((InFile /\ ~NothingDone) => ~UnknownStation)
    /\ []((pc = "filedone" /\ UnknownStation) =>
              (attempt = MaxAttempts /\ calls = MaxAttempts /\ gaveup /\ ERROR))
    /\ [][(readings' # readings \/ recent' # recent
             \/ readings_inserted' # readings_inserted) => ~UnknownStation]_vars
    /\ [][(pc = "filedone" /\ ~interrupted' /\ UnknownStation) =>
            (IF i < Len(file_list)
             THEN pc' = "file" /\ i' = i + 1 /\ file_list' = file_list
             ELSE pc' = "close")]_vars

\* the file after the one of the unknown station is being processed
C30_Witness ==
    /\ pc = "download"
    /\ i = 2
    /\ StationOfName(file_list[1]) \notin Stationen
    /\ file_list[1] \in tried
    /\ gaveup
    /\ ERROR
    /\ readings = {}

\* ------------------------------------------------------------------------
\* C31..C33
\* ------------------------------------------------------------------------

\* the callbacks of the call of repeat that raised
NumRaised == Cardinality({k \in 1..Len(outcomes) : outcomes[k] \in Raised})

C31_FileGivenUp ==
    /\ Exhausted
    /\ calls = 3
    /\ backoffs = 3
    /\ ERROR

\* the rows of table t that belong to station s
RowsOfStation(t, s) == {r \in t : r.station = s}

\* C32: the transaction of a file writes rows and the watermark only of the
\* station named in the file name, whose watermark filtered the payload: the
\* commit leaves the watermark and the rows of every other station as they were
C32_OnlyOwnStation ==
    [][ (pc = "commit" /\ pc' = "cleanup") =>
            \A s \in StationIds \ {StationOfName(fnam)} :
                /\ recent'[s] = recent[s]
                /\ RowsOfStation(readings', s) = RowsOfStation(readings, s) ]_vars

\* the subject of the mail of a run in which a file was given up, or none was
MailOfRun == <<IF gaveup THEN "ERROR" ELSE "SUCCESS">>

\* C33: an interrupt ends the current attempt and the run: nothing of the open
\* transaction is stored, no further attempt is made and no further file is
\* taken, the error flag is left as it is, and the mail of the interrupted run
\* says SUCCESS unless a file had been given up before
C33_InterruptEndsRunUnflagged ==
    /\ [][(interrupted' /\ ~interrupted) =>
            /\ pc' = "mail"
            /\ ERROR' = ERROR
            /\ readings' = readings
            /\ recent' = recent
            /\ tx' = NoTx
            /\ ~temp_dir'
            /\ tried' = tried]_vars
    /\ [](interrupted => (pc \in {"mail", "idle"} /\ (ERROR <=> gaveup)))
    /\ [][(interrupted /\ pc = "mail") =>
            /\ pc' = "idle"
            /\ readings' = readings
            /\ recent' = recent
            /\ tried' = tried
            /\ mails' = MailOfRun]_vars
    /\ []((interrupted /\ pc = "idle") => mails = MailOfRun)

\* a run interrupted before the commit of its first rows has mailed SUCCESS
C33_Witness ==
    /\ interrupted
    /\ pc = "idle"
    /\ ~gaveup
    /\ mails = <<"SUCCESS">>
    /\ readings_inserted > 0
    /\ added = 0
    /\ commit_locks = 0
    /\ readings = {}

\* a run interrupted after a file was given up has mailed ERROR
C33_AfterGiveUp ==
    /\ interrupted
    /\ pc = "idle"
    /\ gaveup
    /\ mails = <<"ERROR">>

====
